---- MODULE Spec2Model ----
(***************************************************************************)
(* Canonicalization engine of the product-mapping pipeline: the raw        *)
(* records loaded from the sources, the master table built from them by    *)
(* pipeline/standardization.py, the per-source builder of                  *)
(* create_local_shop_master.py and the identifier routines.                *)
(*                                                                         *)
(* A Python str is a sequence of one-character strings; a missing value    *)
(* (None / NaN / NaT) is the one-element sequence NaN, which is no str.    *)
(***************************************************************************)
EXTENDS Integers, Sequences, FiniteSets, TLC

VARIABLES
    PARENT_CHILD_MAPPING,   \* module global of pipeline/standardization.py: the
                            \* authoring structure parent -> [aliases], in dict order
    CHILD_TO_PARENT_MAP,    \* module global: cleaned alias -> parent
    df,             \* all_product_data_df: the raw records, in load order
    master,         \* last result of create_parent_child_master_table
    prev_master,    \* the result of the call before that one
    calls,          \* calls of create_parent_child_master_table on this frame:
                    \* 0, 1, or 2 for two and more
    local_df,       \* products_df of create_local_shop_master.py
    local_master,   \* result of create_local_shop_master_table
    local_calls,    \* runs of create_local_shop_master.py
    issued,         \* identifiers handed out by the identifier routines
    sources,        \* the rows the two source systems hold
    hub,            \* the tables of the destination database, by name
    last_run,       \* what the last run of run_unified_pipeline did
    writer,         \* position and argument of each master-table writer
    remote,         \* last result of get_canonical_master_data of remote_parent_id.py
    source_masters, \* results of the per-source builders on the frame
    config_file,    \* scripts/dynamic_mapping/mapping_config.json, as it is on disk
    pipeline_state, \* scripts/dynamic_mapping/.pipeline_state: the saved hash
    sqlalchemy_version, \* major version of the installed SQLAlchemy
    master_table,   \* the rows of public.local_shop_master in the hub database
    runs,           \* the pipeline run of each runner, step by step
    webhook,        \* the last request to POST /trigger and its answer
    edits           \* how often mapping_config.json has been modified

vars == <<PARENT_CHILD_MAPPING, CHILD_TO_PARENT_MAP, df, master, prev_master, calls,
          local_df, local_master, local_calls, issued,
         sources, hub, last_run, writer, remote, source_masters,
         config_file, pipeline_state, sqlalchemy_version, master_table, runs, webhook,
         edits>>

\* the state of the scripts around the dynamic mapping and the per-source
\* builders
dynamic_vars == <<config_file, pipeline_state, sqlalchemy_version, master_table, runs,
                  webhook, edits>>

late_vars == <<source_masters, dynamic_vars>>

hub_vars == <<sources, hub, last_run, writer, remote, late_vars>>

----------------------------------------------------------------------------
(* Python str: code points, comparison, whitespace, case.                  *)

UpperCase == <<"A","B","C","D","E","F","G","H","I","J","K","L","M",
               "N","O","P","Q","R","S","T","U","V","W","X","Y","Z">>
LowerCase == <<"a","b","c","d","e","f","g","h","i","j","k","l","m",
               "n","o","p","q","r","s","t","u","v","w","x","y","z">>
Digits    == <<"0","1","2","3","4","5","6","7","8","9">>

IndexIn(c, s) == CHOOSE i \in 1..Len(s) : s[i] = c
IsIn(c, s)    == \E i \in 1..Len(s) : s[i] = c

Characters ==
    {"\t", " "} \cup { Digits[i] : i \in 1..Len(Digits) }
                \cup { UpperCase[i] : i \in 1..Len(UpperCase) }
                \cup { LowerCase[i] : i \in 1..Len(LowerCase) }

\* ord(c), tabulated
OrdTable ==
    [c \in Characters |->
        IF c = "\t" THEN 9
        ELSE IF c = " " THEN 32
        ELSE IF IsIn(c, Digits) THEN 47 + IndexIn(c, Digits)
        ELSE IF IsIn(c, UpperCase) THEN 64 + IndexIn(c, UpperCase)
        ELSE 96 + IndexIn(c, LowerCase)]
Ord(c) == OrdTable[c]

\* str.isspace / the regular expression class \s
IsSpace(c) == c \in {" ", "\t"}

\* a < b on str: lexicographic by code point
RECURSIVE StrLess(_, _)
StrLess(a, b) ==
    IF b = <<>> THEN FALSE
    ELSE IF a = <<>> THEN TRUE
    ELSE IF a[1] = b[1] THEN StrLess(Tail(a), Tail(b))
    ELSE Ord(a[1]) < Ord(b[1])

\* sorted(S) for a set of str
RECURSIVE Sorted(_)
Sorted(S) ==
    IF S = {} THEN <<>>
    ELSE LET m == CHOOSE x \in S : \A y \in S \ {x} : StrLess(x, y)
         IN  <<m>> \o Sorted(S \ {m})

\* str.lower
LowerTable ==
    [c \in Characters |->
        IF IsIn(c, UpperCase) THEN LowerCase[IndexIn(c, UpperCase)] ELSE c]
LowerChar(c) == LowerTable[c]
Lower(s) == [i \in 1..Len(s) |-> LowerChar(s[i])]

\* str.lstrip, str.rstrip, str.strip
RECURSIVE LStrip(_)
LStrip(s) == IF s # <<>> /\ IsSpace(s[1]) THEN LStrip(Tail(s)) ELSE s
RECURSIVE RStrip(_)
RStrip(s) ==
    IF s # <<>> /\ IsSpace(s[Len(s)]) THEN RStrip(SubSeq(s, 1, Len(s) - 1)) ELSE s
Strip(s) == RStrip(LStrip(s))

\* re.sub(r'\s+', ' ', s): every maximal run of whitespace becomes one space
RECURSIVE CollapseSpaces(_)
CollapseSpaces(s) ==
    IF s = <<>> THEN <<>>
    ELSE IF IsSpace(s[1])
         THEN <<" ">> \o CollapseSpaces(LStrip(s))
         ELSE <<s[1]>> \o CollapseSpaces(Tail(s))

\* re.sub(r'\s+', ' ', str(x)).strip().lower()
\* CleanName without the strip
CleanNameNoStrip(s) == Lower(CollapseSpaces(s))

CleanName(s) == Lower(Strip(CollapseSpaces(s)))

----------------------------------------------------------------------------
(* Values.                                                                 *)

\* None / NaN / NaT
NaN == <<"NaN">>

NAMESPACE_UUID == "6ba7b810-9dad-11d1-80b4-00c04fd430c8"

\* str literals
Apple     == <<"A","p","p","l","e">>
Appel     == <<"A","p","p","e","l">>
Corn      == <<"C","o","r","n">>
appel_    == <<"a","p","p","e","l"," ">>
Zug_Soap  == <<"Z","u","g"," ","S","o","a","p">>
zug__soap_ == <<"z","u","g"," "," ","s","o","a","p"," ">>
Zero      == <<"0">>
Empty     == <<>>

\* The entries "Apple" and "Corn" of the literal PARENT_CHILD_MAPPING, in dict
\* order.
MappingLiteral ==
    << <<Apple, <<Apple, Appel>>>>,
       <<Corn,  <<Corn>>>> >>

\* LOCAL_SHOP_PARENT_CHILD_MAPPING: the same two entries.
LOCAL_SHOP_PARENT_CHILD_MAPPING ==
    << <<Apple, <<Apple, Appel>>>>,
       <<Corn,  <<Corn>>>> >>

\* raw_product_name values a source can return
RawNames ==
    { NaN, Empty, <<" ">>, Zero, <<" ","0"," ">>,
      Apple, appel_, Zug_Soap, zug__soap_ }

\* The records load_all_product_data_from_clickhouse returns: an integer id,
\* and created_at as the text toString(created_at) gives, which may not parse.
\* A timestamp is a local hour with a UTC offset.
ClickHouseRecords ==
    [ raw_product_id   : { [kind |-> "int", text |-> <<"7">>] },
      raw_product_name : RawNames,
      created_at       : { [kind |-> "junk",  hour |-> 0, offset |-> 0],
                           [kind |-> "stamp", hour |-> 5, offset |-> 0] } ]

\* The records load_all_product_data_from_supabase returns: id::text, and a
\* timestamp with time zone, or NULL.
SupabaseRecords ==
    [ raw_product_id   : { [kind |-> "str", text |-> <<"A","1">>] },
      raw_product_name : RawNames,
      created_at       : { [kind |-> "null",  hour |-> 0, offset |-> 0],
                           [kind |-> "stamp", hour |-> 6, offset |-> 3] } ]


\* bound: number of records in a frame
MaxRecords == 2

----------------------------------------------------------------------------
(* pipeline/standardization.py                                             *)

\* the (alias, parent) pairs of a mapping in iteration order
RECURSIVE AliasPairs(_)
AliasPairs(m) ==
    IF m = <<>> THEN <<>>
    ELSE [i \in 1..Len(m[1][2]) |-> <<m[1][2][i], m[1][1]>>] \o AliasPairs(Tail(m))

\* _create_child_to_parent_map keeping the first parent of a cleaned child
_create_child_to_parent_map_first_wins(m) ==
    LET pairs == AliasPairs(m)
        cleaned_child == [i \in 1..Len(pairs) |-> CleanName(pairs[i][1])]
        first(k) == CHOOSE i \in 1..Len(pairs) :
                      /\ cleaned_child[i] = k
                      /\ \A j \in 1..(i-1) : cleaned_child[j] # k
    IN  [k \in { cleaned_child[i] : i \in 1..Len(pairs) } |-> pairs[first(k)][2]]

\* _create_child_to_parent_map: cleaned child -> parent, later entries overwrite
_create_child_to_parent_map(m) ==
    LET pairs == AliasPairs(m)
        cleaned_child == [i \in 1..Len(pairs) |-> CleanName(pairs[i][1])]
        last(k) == CHOOSE i \in 1..Len(pairs) :
                      /\ cleaned_child[i] = k
                      /\ \A j \in (i+1)..Len(pairs) : cleaned_child[j] # k
    IN  [k \in { cleaned_child[i] : i \in 1..Len(pairs) } |-> pairs[last(k)][2]]

\* uuid.uuid5(namespace, name): the SHA-1 based identifier, a function of the
\* namespace and the name alone
Uuid5(namespace, name) == <<"uuid5", namespace, name>>

_generate_stable_uuid(name) == Uuid5(NAMESPACE_UUID, name)

\* astype(str) on an id
AsStr(id) == id.text

\* pd.to_datetime(x, errors='coerce', utc=True): the UTC instant, or NaT
ToDatetimeUtc(t) ==
    IF t.kind = "stamp" THEN <<"utc", t.hour - t.offset>> ELSE NaN

\* DropFiltered comparing the name with '0' without stripping it
DropFilteredNoStrip(frame) ==
    SelectSeq(frame, LAMBDA r : r.raw_product_name # NaN
                                 /\ r.raw_product_name # Zero)

\* lines 106-109: dropna(subset=['raw_product_name']), then drop names that
\* strip to '0'
DropFiltered(frame) ==
    SelectSeq(frame, LAMBDA r : r.raw_product_name # NaN
                                 /\ Strip(r.raw_product_name) # Zero)

\* dict.get / Series.map(dict): NaN for a key that is absent
MapGet(d, k) == IF k \in DOMAIN d THEN d[k] ELSE NaN

\* TransformFirst taking the last record of the group instead of the first
TransformLast(frame, cleaned_name) ==
    [i \in 1..Len(frame) |->
        frame[CHOOSE k \in i..Len(frame) :
                 /\ cleaned_name[k] = cleaned_name[i]
                 /\ \A j \in (k+1)..Len(frame) : cleaned_name[j] # cleaned_name[i]
             ].raw_product_name]

\* groupby(cleaned_name)['raw_product_name'].transform('first'): per record,
\* the raw name of the first record of the frame with the same cleaned name
TransformFirst(frame, cleaned_name) ==
    [i \in 1..Len(frame) |->
        frame[CHOOSE k \in 1..i :
                 /\ cleaned_name[k] = cleaned_name[i]
                 /\ \A j \in 1..(k-1) : cleaned_name[j] # cleaned_name[i]
             ].raw_product_name]

\* ParentNames without the fillna of line 121: unmapped records keep NaN
\* ParentNames with a forward fill for the fillna of line 121: an unmapped
\* record takes the parent of the nearest mapped record before it
ParentNamesForwardFill(frame, child_map) ==
    LET cleaned_name == [i \in 1..Len(frame) |-> CleanName(frame[i].raw_product_name)]
        parent_name_from_map ==
            [i \in 1..Len(frame) |-> MapGet(child_map, cleaned_name[i])]
        parent_name_for_unmapped == TransformFirst(frame, cleaned_name)
        before(i) == { j \in 1..(i - 1) : parent_name_from_map[j] # NaN }
    IN  [i \in 1..Len(frame) |->
            IF parent_name_from_map[i] # NaN THEN parent_name_from_map[i]
            ELSE IF before(i) # {}
            THEN parent_name_from_map[CHOOSE j \in before(i) : \A l \in before(i) : l <= j]
            ELSE parent_name_for_unmapped[i]]

ParentNamesNoFillna(frame, child_map) ==
    [i \in 1..Len(frame) |-> MapGet(child_map, CleanName(frame[i].raw_product_name))]

\* ParentNames with the fillna of line 121 the wrong way round: the first raw
\* name of the group wins over the parent of the lookup
ParentNamesFallbackFirst(frame, child_map) ==
    LET cleaned_name == [i \in 1..Len(frame) |-> CleanName(frame[i].raw_product_name)]
    IN  TransformFirst(frame, cleaned_name)

\* lines 115-121: the column parent_name of the filtered frame
ParentNames(frame, child_map) ==
    LET cleaned_name == [i \in 1..Len(frame) |-> CleanName(frame[i].raw_product_name)]
        parent_name_from_map ==
            [i \in 1..Len(frame) |-> MapGet(child_map, cleaned_name[i])]
        parent_name_for_unmapped == TransformFirst(frame, cleaned_name)
    IN  [i \in 1..Len(frame) |->
            IF parent_name_from_map[i] # NaN THEN parent_name_from_map[i]
            ELSE parent_name_for_unmapped[i]]

\* MinDate with max() for min()
MaxDate(dates) ==
    LET valid == { d \in dates : d # NaN }
    IN  IF valid = {} THEN NaN
        ELSE CHOOSE d \in valid : \A e \in valid : d[2] >= e[2]

\* dates.dropna().min() if not dates.dropna().empty else None
MinDate(dates) ==
    LET valid == { d \in dates : d # NaN }
    IN  IF valid = {} THEN NaN
        ELSE CHOOSE d \in valid : \A e \in valid : d[2] <= e[2]

\* AliasList looking the parent up by its cleaned name
AliasListByCleanedName(m, parent) ==
    IF \E i \in 1..Len(m) : m[i][1] = CleanName(parent)
    THEN m[CHOOSE i \in 1..Len(m) : m[i][1] = CleanName(parent)][2]
    ELSE NaN

\* PARENT_CHILD_MAPPING.get(parent) as Series.map does it
AliasList(m, parent) ==
    IF \E i \in 1..Len(m) : m[i][1] = parent
    THEN m[CHOOSE i \in 1..Len(m) : m[i][1] = parent][2]
    ELSE NaN

\* local_generate_stable_uuid under uuid.NAMESPACE_URL instead of the shared
\* namespace
local_generate_stable_uuid_other_namespace(name) ==
    Uuid5("6ba7b811-9dad-11d1-80b4-00c04fd430c8", name)

\* _generate_stable_uuid of create_local_shop_master.py with its NAMESPACE_UUID
local_generate_stable_uuid(name) == Uuid5("6ba7b810-9dad-11d1-80b4-00c04fd430c8", name)

\* sorted(..., reverse=True)
RECURSIVE SortedDescending(_)
SortedDescending(S) ==
    IF S = {} THEN <<>>
    ELSE LET m == CHOOSE x \in S : \A y \in S \ {x} : StrLess(y, x)
         IN  <<m>> \o SortedDescending(S \ {m})

\* the child lists of a row: sorted(list(values.unique()))
SortedUnique(S) == Sorted(S)

\* sort_values('parent_name', ascending=False)
SortValuesDescending(parents) == SortedDescending(parents)

\* line 160: sort_values('parent_name') over the group keys
SortValues(parents) == Sorted(parents)

\* the _generate_stable_uuid of the module that builds the table; the
\* NAMESPACE_UUID of scripts/supermarket/create_supermarket_master.py is
\* written out
StableUuidIn(module, name) ==
    IF module = "pipeline.standardization" THEN _generate_stable_uuid(name)
    ELSE IF module = "create_supermarket_master" THEN 
         Uuid5("6ba7b810-9dad-11d1-80b4-00c04fd430c8", name)
    ELSE local_generate_stable_uuid(name)

\* lines 114-164 for the lookup table, authoring mapping and identifier routine
\* of a module
BuildMaster(frame0, child_map, m, module) ==
    LET frame   == DropFiltered(frame0)
        idx     == 1..Len(frame)
        parent_name == ParentNames(frame, child_map)
        \* groupby('parent_name') leaves out the records whose key is NaN
        parents == { parent_name[i] : i \in idx } \ {NaN}
        row(p)  ==
            LET members == { i \in idx : parent_name[i] = p }
                aliases == AliasList(m, p)
            IN  [ parent_product_id   |-> StableUuidIn(module, p),
                  parent_product_name |-> p,
                  child_product_ids   |->
                      SortedUnique({ AsStr(frame[i].raw_product_id) : i \in members }),
                  child_product_names |->
                      SortedUnique({ frame[i].raw_product_name : i \in members }),
                  all_possible_child_names |->
                      IF aliases # NaN THEN aliases ELSE <<p>>,
                  created_at |->
                      MinDate({ ToDatetimeUtc(frame[i].created_at) : i \in members }) ]
        order   == SortValues(parents)
    IN  [k \in 1..Len(order) |-> row(order[k])]

\* create_parent_child_master_table(all_product_data_df)
create_parent_child_master_table(all_product_data_df) ==
    IF all_product_data_df = <<>> THEN <<>>
    ELSE BuildMaster(all_product_data_df, CHILD_TO_PARENT_MAP, PARENT_CHILD_MAPPING,
                     "pipeline.standardization")

----------------------------------------------------------------------------
(* create_local_shop_master.py                                             *)

\* _create_child_to_parent_map of create_local_shop_master.py: the key is
\* child.lower().strip()
local_create_child_to_parent_map(m) ==
    LET pairs == AliasPairs(m)
        cleaned_child == [i \in 1..Len(pairs) |-> Strip(Lower(pairs[i][1]))]
        last(k) == CHOOSE i \in 1..Len(pairs) :
                      /\ cleaned_child[i] = k
                      /\ \A j \in (i+1)..Len(pairs) : cleaned_child[j] # k
    IN  [k \in { cleaned_child[i] : i \in 1..Len(pairs) } |-> pairs[last(k)][2]]

\* ORDER BY product_name
RECURSIVE OrderByName(_)
OrderByName(frame) ==
    IF frame = <<>> THEN <<>>
    ELSE LET i == CHOOSE i \in 1..Len(frame) :
                    \A j \in 1..Len(frame) :
                        \/ StrLess(frame[i].raw_product_name, frame[j].raw_product_name)
                        \/ /\ frame[i].raw_product_name = frame[j].raw_product_name
                           /\ i <= j
             rest == [k \in 1..(Len(frame) - 1) |->
                          IF k < i THEN frame[k] ELSE frame[k + 1]]
         IN  <<frame[i]>> \o OrderByName(rest)

\* get_local_shop_products: the rows of local_shop_prices WHERE product_name
\* IS NOT NULL AND product_name != '' ORDER BY product_name
get_local_shop_products(rows) ==
    OrderByName(SelectSeq(rows, LAMBDA r : r.raw_product_name # NaN
                                            /\ r.raw_product_name # Empty))

\* CHILD_TO_PARENT_MAP of create_local_shop_master.py
LOCAL_SHOP_CHILD_TO_PARENT_MAP ==
    local_create_child_to_parent_map(LOCAL_SHOP_PARENT_CHILD_MAPPING)

\* the table public.local_shop_prices, one of SUPABASE_TABLES: the rows the
\* Supabase loader put in the combined frame
local_shop_prices == SelectSeq(df, LAMBDA r : r.raw_product_id.kind = "str")

\* create_local_shop_master_table(products_df)
create_local_shop_master_table(products_df) ==
    IF products_df = <<>> THEN <<>>
    ELSE BuildMaster(products_df, LOCAL_SHOP_CHILD_TO_PARENT_MAP,
                     LOCAL_SHOP_PARENT_CHILD_MAPPING, "create_local_shop_master")

\* create_local_shop_master_table with the module's mapping literal being m
create_local_shop_master_table_given(m, products_df) ==
    IF products_df = <<>> THEN <<>>
    ELSE BuildMaster(products_df, local_create_child_to_parent_map(m), m,
                     "create_local_shop_master")

\* create_supermarket_master_table (lines 160-227) with the module's mapping
\* literal being m; _create_child_to_parent_map of the module (lines 97-103)
\* lowers and strips the child keys
create_supermarket_master_table_given(m, products_df) ==
    LET pairs == AliasPairs(m)
        cleaned_child == [i \in 1..Len(pairs) |-> Strip(Lower(pairs[i][1]))]
        last(k) == CHOOSE i \in 1..Len(pairs) :
                      /\ cleaned_child[i] = k
                      /\ \A j \in (i+1)..Len(pairs) : cleaned_child[j] # k
        child_to_parent_map ==
            [k \in { cleaned_child[i] : i \in 1..Len(pairs) } |-> pairs[last(k)][2]]
    IN  IF products_df = <<>> THEN <<>>
        ELSE BuildMaster(products_df, child_to_parent_map, m, "create_supermarket_master")

-----------------------------------------------------------------------------
(* main.py, pipeline/data_loader.py, pipeline/db_writer.py: one run of the *)
(* unified pipeline against the source systems and the hub database.       *)

\* a table that does not exist in the hub database
NoTable == [exists |-> FALSE, rows |-> <<>>]

\* a table of the hub database holding the rows
Table(rows) == [exists |-> TRUE, rows |-> rows]

HUB_CANONICAL_TABLE_NAME == "canonical_products_master"

\* rows the Supabase tables can hold
SupabaseRows ==
    { r \in SupabaseRecords :
        r.raw_product_name \in {appel_, Zug_Soap} /\ r.created_at.kind = "stamp" }

\* bound: number of rows a source system holds
MaxSourceRows == 1

RECURSIVE SeqsUpTo(_, _)
SeqsUpTo(S, n) ==
    IF n = 0 THEN {<<>>}
    ELSE LET shorter == SeqsUpTo(S, n - 1)
         IN  shorter \cup { Append(q, x) : q \in shorter, x \in S }

\* load_all_product_data_from_clickhouse: the rows with the id as str on
\* status 200, an empty frame on any other status and on any exception
load_all_product_data_from_clickhouse(response, rows) ==
    IF response = "200"
    THEN [i \in 1..Len(rows) |->
            [rows[i] EXCEPT !.raw_product_id = [kind |-> "str", text |-> AsStr(@)]]]
    ELSE <<>>

\* load_all_product_data_from_supabase: the rows, or the exception re-raised
load_all_product_data_from_supabase(ok, rows) ==
    IF ok THEN [raised |-> FALSE, df |-> rows]
    ELSE [raised |-> TRUE, df |-> <<>>]

\* how DataFrame.to_sql(if_exists='replace') can end: done, or an exception
\* before the old table is dropped, after the drop, after the new table is
\* created
ToSqlOutcomes == {"ok", "fail_before_drop", "fail_after_drop", "fail_after_create"}

\* the table a failed to_sql(if_exists='replace') leaves
TableAfterFailedToSql(outcome, old) ==
    IF outcome = "fail_before_drop" THEN old
    ELSE IF outcome = "fail_after_drop" THEN NoTable
    ELSE Table(<<>>)

\* write_to_db raising on an empty frame
write_to_db_raising_on_empty(frame, old, outcome) ==
    IF frame = <<>> THEN [table |-> old, raised |-> TRUE, wrote |-> FALSE]
    ELSE IF outcome = "ok" THEN [table |-> Table(frame), raised |-> FALSE, wrote |-> TRUE]
    ELSE [table |-> TableAfterFailedToSql(outcome, old), raised |-> TRUE, wrote |-> FALSE]

\* write_to_db(df, engine, table_name, schema, if_exists='replace'): the
\* table afterwards, whether it raised, whether the frame was written
write_to_db(frame, old, outcome) ==
    IF frame = <<>> THEN [table |-> old, raised |-> FALSE, wrote |-> FALSE]
    ELSE IF outcome = "ok" THEN [table |-> Table(frame), raised |-> FALSE, wrote |-> TRUE]
    ELSE [table |-> TableAfterFailedToSql(outcome, old), raised |-> TRUE, wrote |-> FALSE]

Writers == {"create_local_shop_master", "create_supermarket_master"}


----------------------------------------------------------------------------
(* scripts/dynamic_mapping: the contents mapping_config.json can have, the *)
(* runners of the three-step pipeline and the requests to POST /trigger.   *)

\* The contents mapping_config.json can have, by the name of their bytes: a
\* JSON object with the table "local_shop" whose parent_id is a UUID string
\* ("v1", "v2"), the same without the field "version", with a parent_id that
\* is a string but no UUID, without a parent_id, with a number for it; a file
\* that is no JSON document; and no file at all ("").
ConfigFile ==
    LET AllFields == {"version", "last_updated", "tables"}
        uuid(c) ==
            [kind |-> "str",
             text |-> <<c,c,c,c,c,c,c,c,"-",c,c,c,c,"-",c,c,c,c,"-",c,c,c,c,"-",
                        c,c,c,c,c,c,c,c,c,c,c,c>>]
        json(content, fields, name, has_id, id, children) ==
            [exists |-> TRUE, json |-> TRUE, content |-> content, fields |-> fields,
             parent_products |->
                 << [parent_name |-> name, has_parent_id |-> has_id, parent_id |-> id,
                     children |-> children] >>]
        other(exists, content) ==
            [exists |-> exists, json |-> FALSE, content |-> content, fields |-> {},
             parent_products |-> <<>>]
    IN  [ content \in {"v1", "v2", "no-version", "not-a-uuid", "no-parent-id",
                       "numeric-id", "no-json", ""} |->
            CASE content = "v1" -> json(content, AllFields, Apple, TRUE, uuid("a"), <<Appel>>)
              [] content = "v2" -> json(content, AllFields, Corn, TRUE, uuid("C"), <<>>)
              [] content = "no-version" ->
                    json(content, AllFields \ {"version"}, Apple, TRUE, uuid("a"), <<Appel>>)
              [] content = "not-a-uuid" ->
                    json(content, AllFields, Apple, TRUE,
                         [kind |-> "str", text |-> <<"n","o","n","e">>], <<Appel>>)
              [] content = "no-parent-id" ->
                    json(content, AllFields, Apple, FALSE, uuid("a"), <<Appel>>)
              [] content = "numeric-id" ->
                    json(content, AllFields, Apple, TRUE,
                         [kind |-> "int", text |-> <<"5">>], <<Appel>>)
              [] content = "no-json" -> other(TRUE, content)
              [] OTHER -> other(FALSE, content) ]

ConfigV1 == ConfigFile["v1"]

\* the files every step accepts, and the files an editor can leave behind
ValidConfigFiles == {ConfigFile["v1"], ConfigFile["v2"]}
ConfigFiles == { ConfigFile[content] : content \in DOMAIN ConfigFile \ {"v2"} }

\* the processes that run the three step scripts: scheduler.py,
\* webhook_trigger.py and auto_pipeline.py
Runners == {"scheduler", "webhook", "auto"}

StepScripts == <<"validate_mapping.py", "update_mapping.py", "apply_dynamic_mapping.py">>

\* a runner outside run_pipeline
IdleRun ==
    [ pc |-> "idle", steps |-> <<>>, config |-> ConfigFile[""], result |-> "none",
      modified |-> FALSE, hash_before |-> NaN, checked |-> "none" ]

\* modifications of mapping_config.json in one behaviour
MaxEdits == 2

\* WEBHOOK_SECRET of the environment
WEBHOOK_SECRET == "s3cret"

----------------------------------------------------------------------------
(* The state machine.                                                      *)

\* mapping_config.json as shipped, no pipeline run yet, an empty master
\* table, and one of the SQLAlchemy versions
InitDynamicMapping(versions) ==
    /\ config_file = ConfigV1
    /\ pipeline_state = NaN
    /\ sqlalchemy_version \in versions
    /\ master_table = <<>>
    /\ runs = [r \in Runners |-> IdleRun]
    /\ webhook = [bearer |-> "", secret |-> "", answer |-> "none"]
    /\ edits = 0

\* the engine after import with the authoring structure m
InitEngine(m) ==
    /\ PARENT_CHILD_MAPPING = m
    /\ CHILD_TO_PARENT_MAP = _create_child_to_parent_map(m)
    /\ df = <<>>
    /\ master = <<>>
    /\ prev_master = <<>>
    /\ calls = 0
    /\ local_df = <<>>
    /\ local_master = <<>>
    /\ local_calls = 0
    /\ issued = {}
    /\ sources = [clickhouse |-> <<>>, supabase |-> <<>>]
    /\ hub = [t \in {HUB_CANONICAL_TABLE_NAME, "local_shop_master", "supermarket_master"} |->
                NoTable]
    \* no run of run_unified_pipeline yet; input and master are the combined
    \* frame and the master table of a run that got as far as computing them
    /\ last_run = [ status |-> "none", clickhouse_loaded |-> FALSE,
                    supabase_loaded |-> FALSE,
                    input |-> <<>>, master |-> <<>>, wrote |-> FALSE ]
    /\ writer = [w \in Writers |-> [pc |-> "idle", master_df |-> <<>>, previous |-> NoTable]]
    /\ remote = [called |-> FALSE, parent_mapping |-> <<>>]
    /\ source_masters = [built |-> FALSE, local_shop |-> <<>>, supermarket |-> <<>>]

\* the state after import with the authoring structure m; the scripts that
\* call Connection.commit() need SQLAlchemy 2
InitWith(m) == InitEngine(m) /\ InitDynamicMapping({2})

Init == InitWith(MappingLiteral)

\* the loaders return one more record into the combined frame; the frame is
\* complete before the first aggregation
LoadRecord ==
    /\ calls = 0
    /\ local_calls = 0
    /\ Len(df) < MaxRecords
    /\ \E r \in ClickHouseRecords \cup SupabaseRecords : df' = Append(df, r)
    /\ UNCHANGED <<PARENT_CHILD_MAPPING, CHILD_TO_PARENT_MAP, master, prev_master, calls,
                   local_df, local_master, local_calls, issued>>
    /\ UNCHANGED hub_vars

\* RunStandardization leaving the caller's frame in reverse order
RunStandardizationReversingFrame ==
    /\ master' = create_parent_child_master_table(df)
    /\ prev_master' = master
    /\ calls' = IF calls < 2 THEN calls + 1 ELSE calls
    /\ df' = [i \in 1..Len(df) |-> df[Len(df) + 1 - i]]
    /\ UNCHANGED <<PARENT_CHILD_MAPPING, CHILD_TO_PARENT_MAP,
                   local_df, local_master, local_calls, issued>>
    /\ UNCHANGED hub_vars

\* one call of create_parent_child_master_table on the frame
RunStandardization ==
    /\ master' = create_parent_child_master_table(df)
    /\ prev_master' = master
    /\ calls' = IF calls < 2 THEN calls + 1 ELSE calls
    /\ UNCHANGED <<PARENT_CHILD_MAPPING, CHILD_TO_PARENT_MAP, df, local_df, local_master, local_calls, issued>>
    /\ UNCHANGED hub_vars

\* main() of create_local_shop_master.py: fetch the rows of local_shop_prices,
\* which are the Supabase rows of the combined frame, and build the per-source
\* master table
RunLocalShopMaster ==
    /\ local_calls = 0
    /\ local_df' = get_local_shop_products(local_shop_prices)
    /\ local_master' = create_local_shop_master_table(local_df')
    /\ local_calls' = 1
    /\ UNCHANGED <<PARENT_CHILD_MAPPING, CHILD_TO_PARENT_MAP, df, master, prev_master, calls, issued>>
    /\ UNCHANGED hub_vars

----------------------------------------------------------------------------
(* The identifier routines, called on their own.                           *)

\* parent names handed to the routines
IdNames == { Apple, Corn, Zug_Soap }

\* bound: distinct values the random generator uuid4 can return
MaxUuid4 == 2

\* scripts/dynamic_mapping/add_new_product.py generate_parent_id
generate_parent_id(parent_name) ==
    Uuid5("6ba7b810-9dad-11d1-80b4-00c04fd430c8", parent_name)

\* the keys 'tomato' and 'onion' of standardization_mappings in add_parent_ids.py
standardization_mappings ==
    { <<"t","o","m","a","t","o">>, <<"o","n","i","o","n">> }

IdRecord(routine, name, id) == [routine |-> routine, name |-> name, id |-> id]

pipeline_vars == <<PARENT_CHILD_MAPPING, CHILD_TO_PARENT_MAP, df, master, prev_master,
                   calls, local_df, local_master, local_calls>>

CallGenerateStableUuid ==
    /\ \E name \in IdNames :
          issued' = issued \cup { IdRecord("pipeline._generate_stable_uuid", name,
                                           _generate_stable_uuid(name)) }
    /\ UNCHANGED pipeline_vars
    /\ UNCHANGED hub_vars

CallLocalGenerateStableUuid ==
    /\ \E name \in IdNames :
          issued' = issued \cup
              { IdRecord("create_local_shop_master._generate_stable_uuid", name,
                         local_generate_stable_uuid(name)) }
    /\ UNCHANGED pipeline_vars
    /\ UNCHANGED hub_vars

CallGenerateParentId ==
    /\ \E name \in IdNames :
          issued' = issued \cup { IdRecord("add_new_product.generate_parent_id", name,
                                           generate_parent_id(name)) }
    /\ UNCHANGED pipeline_vars
    /\ UNCHANGED hub_vars

\* add_parent_ids.create_parent_child_mapping: parent_names[parent_name] is
\* str(uuid.uuid4()) for every parent of standardization_mappings
create_parent_child_mapping ==
    /\ \E parent_names \in [standardization_mappings -> { <<"uuid4", n>> : n \in 1..MaxUuid4 }] :
          issued' = issued \cup
              { IdRecord("add_parent_ids.create_parent_child_mapping", p, parent_names[p])
                  : p \in standardization_mappings }
    /\ UNCHANGED pipeline_vars
    /\ UNCHANGED hub_vars

NextIds ==
    \/ CallGenerateStableUuid
    \/ CallLocalGenerateStableUuid
    \/ CallGenerateParentId
    \/ create_parent_child_mapping

SpecIds == Init /\ [][NextIds]_vars

----------------------------------------------------------------------------

Next ==
    \/ LoadRecord
    \/ RunStandardization
    \/ RunLocalShopMaster

Spec == Init /\ [][Next]_vars

-----------------------------------------------------------------------------
(* Runs of the unified pipeline (main.py).                                 *)

\* the source systems hold other rows than before
SourceChange ==
    \* the rows the ClickHouse table product_names can hold, and the rows
    \* the Supabase tables can hold
    /\ \E c \in SeqsUpTo({ r \in ClickHouseRecords :
                            r.raw_product_name \in {Apple, NaN}
                            /\ r.created_at.kind = "stamp" }, MaxSourceRows),
          b \in SeqsUpTo(SupabaseRows, MaxSourceRows) :
            /\ [clickhouse |-> c, supabase |-> b] # sources
            /\ sources' = [clickhouse |-> c, supabase |-> b]
    /\ UNCHANGED <<pipeline_vars, issued, late_vars, remote, hub, last_run, writer>>

\* run_unified_pipeline(): load both sources, combine, standardize, write
run_unified_pipeline ==
    /\ \E response \in {"200", "500", "exception"}, supabase_ok \in BOOLEAN, outcome \in ToSqlOutcomes :
        LET clickhouse_df == load_all_product_data_from_clickhouse(response, sources.clickhouse)
            supabase == load_all_product_data_from_supabase(supabase_ok, sources.supabase)
            \* dropna(subset=['raw_product_id', 'raw_product_name'])
            combined_raw_data_df ==
                SelectSeq(clickhouse_df \o supabase.df,
                          LAMBDA r : r.raw_product_id.kind # "null" /\ r.raw_product_name # NaN)
            parent_child_master_df == create_parent_child_master_table(combined_raw_data_df)
            written == write_to_db(parent_child_master_df, hub[HUB_CANONICAL_TABLE_NAME], outcome)
        IN  IF supabase.raised
            THEN /\ last_run' = [ status |-> "error",
                                  clickhouse_loaded |-> (response = "200"),
                                  supabase_loaded |-> FALSE,
                                  input |-> <<>>, master |-> <<>>, wrote |-> FALSE ]
                 /\ hub' = hub
            ELSE /\ last_run' = [ status |-> IF written.raised THEN "error" ELSE "success",
                                  clickhouse_loaded |-> (response = "200"),
                                  supabase_loaded |-> TRUE,
                                  input |-> combined_raw_data_df,
                                  master |-> parent_child_master_df,
                                  wrote |-> written.wrote ]
                 /\ hub' = [hub EXCEPT ![HUB_CANONICAL_TABLE_NAME] = written.table]
    /\ UNCHANGED <<pipeline_vars, issued, late_vars, remote, sources, writer>>

NextRun ==
    \/ SourceChange
    \/ run_unified_pipeline

SpecRun == Init /\ [][NextRun]_vars

-----------------------------------------------------------------------------
(* The master-table writers of create_local_shop_master.py and             *)
(* scripts/supermarket/create_supermarket_master.py, statement by          *)
(* statement: each commit is a step other sessions can observe.            *)

\* repr of a str without quotes or backslashes
PyReprStr(str) == <<"'">> \o str \o <<"'">>

\* str(list): "['a', 'b']"
RECURSIVE PyReprItems(_)
PyReprItems(list) ==
    IF list = <<>> THEN <<>>
    ELSE IF Len(list) = 1 THEN PyReprStr(list[1])
    ELSE PyReprStr(list[1]) \o <<",", " ">> \o PyReprItems(Tail(list))

PyReprList(list) == <<"[">> \o PyReprItems(list) \o <<"]">>

\* the table each writer replaces
WriterTable(w) ==
    IF w = "create_local_shop_master" THEN "local_shop_master" ELSE "supermarket_master"

\* the master tables main() hands to a writer: built from the fetched
\* products, and never empty
WriterMasters ==
    { create_local_shop_master_table(get_local_shop_products(f)) :
        f \in SeqsUpTo(SupabaseRows, MaxSourceRows) } \ {<<>>}

\* the rows a writer stores for its master_df
StoredRows(w, master_df) ==
    IF w = "create_local_shop_master" THEN master_df
    \* lines 246-248: the list columns as their str() for TEXT storage
    ELSE [k \in 1..Len(master_df) |->
            [master_df[k] EXCEPT
                !.child_product_ids = PyReprList(@),
                !.child_product_names = PyReprList(@),
                !.all_possible_child_names = PyReprList(@)]]

WriterStep(w, pc) == [writer EXCEPT ![w].pc = pc]

\* create_local_shop_master_table_in_db, lines 218-220: DROP TABLE IF EXISTS
\* and commit; an exception ends the call with False
create_local_shop_master_table_in_db_drop ==
    LET w == "create_local_shop_master" IN
    /\ writer[w].pc \in {"idle", "done", "failed"}
    /\ \E master_df \in WriterMasters, ok \in BOOLEAN :
        /\ writer' = [writer EXCEPT ![w] =
                        [ pc |-> IF ok THEN "dropped" ELSE "failed",
                          master_df |-> master_df,
                          previous |-> hub[WriterTable(w)] ]]
        /\ hub' = IF ok THEN [hub EXCEPT ![WriterTable(w)] = NoTable] ELSE hub
    /\ UNCHANGED <<pipeline_vars, issued, late_vars, remote, sources, last_run>>

\* lines 224-235: CREATE TABLE and commit
create_local_shop_master_table_in_db_create ==
    LET w == "create_local_shop_master" IN
    /\ writer[w].pc = "dropped"
    /\ \E ok \in BOOLEAN :
        /\ writer' = WriterStep(w, IF ok THEN "created" ELSE "failed")
        /\ hub' = IF ok THEN [hub EXCEPT ![WriterTable(w)] = Table(<<>>)] ELSE hub
    /\ UNCHANGED <<pipeline_vars, issued, late_vars, remote, sources, last_run>>

\* lines 239-261: to_sql(if_exists='append') in one transaction, then the count
create_local_shop_master_table_in_db_insert ==
    LET w == "create_local_shop_master" IN
    /\ writer[w].pc = "created"
    /\ \E ok \in BOOLEAN :
        /\ writer' = WriterStep(w, IF ok THEN "done" ELSE "failed")
        /\ hub' = IF ok THEN [hub EXCEPT ![WriterTable(w)] =
                                Table(StoredRows(w, writer[w].master_df))]
                  ELSE hub
    /\ UNCHANGED <<pipeline_vars, issued, late_vars, remote, sources, last_run>>

\* write_master_table_to_db, lines 240-242: DROP TABLE IF EXISTS and commit;
\* an exception is re-raised
write_master_table_to_db_drop ==
    LET w == "create_supermarket_master" IN
    /\ writer[w].pc \in {"idle", "done", "failed"}
    /\ \E master_df \in WriterMasters, ok \in BOOLEAN :
        /\ writer' = [writer EXCEPT ![w] =
                        [ pc |-> IF ok THEN "dropped" ELSE "failed",
                          master_df |-> master_df,
                          previous |-> hub[WriterTable(w)] ]]
        /\ hub' = IF ok THEN [hub EXCEPT ![WriterTable(w)] = NoTable] ELSE hub
    /\ UNCHANGED <<pipeline_vars, issued, late_vars, remote, sources, last_run>>

\* lines 246-257: the list columns to text, then to_sql(if_exists='replace')
write_master_table_to_db_to_sql ==
    LET w == "create_supermarket_master" IN
    /\ writer[w].pc = "dropped"
    /\ \E outcome \in ToSqlOutcomes :
        /\ writer' = WriterStep(w, IF outcome = "ok" THEN "written" ELSE "failed")
        /\ hub' = [hub EXCEPT ![WriterTable(w)] =
                      IF outcome = "ok"
                      THEN Table(StoredRows(w, writer[w].master_df))
                      ELSE TableAfterFailedToSql(outcome, @)]
    /\ UNCHANGED <<pipeline_vars, issued, late_vars, remote, sources, last_run>>

\* lines 260-264: ALTER TABLE ADD PRIMARY KEY and commit
write_master_table_to_db_add_primary_key ==
    LET w == "create_supermarket_master" IN
    /\ writer[w].pc = "written"
    /\ \E ok \in BOOLEAN : writer' = WriterStep(w, IF ok THEN "done" ELSE "failed")
    /\ UNCHANGED <<pipeline_vars, issued, late_vars, remote, sources, last_run, hub>>

NextWriters ==
    \/ create_local_shop_master_table_in_db_drop
    \/ create_local_shop_master_table_in_db_create
    \/ create_local_shop_master_table_in_db_insert
    \/ write_master_table_to_db_drop
    \/ write_master_table_to_db_to_sql
    \/ write_master_table_to_db_add_primary_key

SpecWriters == Init /\ [][NextWriters]_vars

-----------------------------------------------------------------------------
(* The worked example: the alias table of "Tomato A" alone and three       *)
(* records of it.  Timestamps count hours from 2024-01-01T00:00Z.          *)

Tomato_A         == <<"T","o","m","a","t","o"," ","A">>
tomato_a_spaced  == <<" ","t","o","m","a","t","o"," ","a"," ">>
Tomatoes_Grade_A == <<"T","o","m","a","t","o","e","s"," ","G","r","a","d","e"," ","A">>
Tomato           == <<"T","o","m","a","t","o">>

ExampleRecord(id, name, created_at) ==
    [ raw_product_id |-> [kind |-> "str", text |-> id],
      raw_product_name |-> name,
      created_at |-> created_at ]

ExampleFrame ==
    LET Date_2024_01_01 == [kind |-> "stamp", hour |-> 0,  offset |-> 0]
        Date_2024_01_03 == [kind |-> "stamp", hour |-> 48, offset |-> 0]
        NoDate          == [kind |-> "null",  hour |-> 0,  offset |-> 0]
    IN
    << ExampleRecord(<<"A","1">>, Tomato_A, Date_2024_01_01),
       ExampleRecord(<<"A","2">>, tomato_a_spaced, Date_2024_01_03),
       ExampleRecord(<<"A","3">>, Tomatoes_Grade_A, NoDate) >>

\* bound: number of records in a frame of the example
MaxExampleRecords == 3

\* one more record of the example into the frame, in any order
LoadExampleRecord ==
    /\ calls = 0
    /\ Len(df) < MaxExampleRecords
    /\ \E i \in 1..Len(ExampleFrame) : df' = Append(df, ExampleFrame[i])
    /\ UNCHANGED <<PARENT_CHILD_MAPPING, CHILD_TO_PARENT_MAP, master, prev_master, calls,
                   local_df, local_master, local_calls, issued>>
    /\ UNCHANGED hub_vars

NextExample ==
    \/ LoadExampleRecord
    \/ RunStandardization

SpecExample ==
    /\ InitWith(<< <<Tomato_A, <<Tomato_A, Tomatoes_Grade_A, Tomato>>>> >>)
    /\ [][NextExample]_vars

-----------------------------------------------------------------------------
(* remote_parent_id.py: get_canonical_master_data reads the canonical      *)
(* master table back, its array columns as the driver hands them over: a   *)
(* list, a text in PostgreSQL array format, a text holding str(list), or   *)
(* NULL.                                                                   *)

RECURSIVE SplitComma(_)
\* str.split(',')
SplitComma(t) ==
    IF \A i \in 1..Len(t) : t[i] # ","
    THEN <<t>>
    ELSE LET i == CHOOSE j \in 1..Len(t) : t[j] = "," /\ \A k \in 1..(j - 1) : t[k] # ","
         IN  <<SubSeq(t, 1, i - 1)>> \o SplitComma(SubSeq(t, i + 1, Len(t)))

RECURSIVE StripQuotes(_)
\* str.strip('"')
StripQuotes(t) ==
    IF t # <<>> /\ t[1] = "\"" THEN StripQuotes(Tail(t))
    ELSE IF t # <<>> /\ t[Len(t)] = "\"" THEN StripQuotes(SubSeq(t, 1, Len(t) - 1))
    ELSE t

StartsEndsWith(t, open, close) == Len(t) >= 1 /\ t[1] = open /\ t[Len(t)] = close

Inner(t) == IF Len(t) >= 2 THEN SubSeq(t, 2, Len(t) - 1) ELSE <<>>

AllDigits(t) == t # <<>> /\ \A i \in 1..Len(t) : IsIn(t[i], Digits)

StrItem(t) == [kind |-> "str", text |-> t]

ListValue(items)  == [kind |-> "list", items |-> items]

\* ast.literal_eval on texts without commas or quotes inside the elements: a
\* list display gives the list, digits give an int, anything else raises
literal_eval(t) ==
    LET ParseError == [kind |-> "error", items |-> <<>>]
        \* one element of a list display: a str in single quotes, or an int
        PyListItem(seg) ==
            LET e == Strip(seg) IN
            IF /\ Len(e) >= 2 /\ e[1] = "'" /\ e[Len(e)] = "'"
               /\ \A i \in 2..(Len(e) - 1) : e[i] # "'"
            THEN StrItem(Inner(e))
            ELSE IF AllDigits(e) THEN [kind |-> "int", text |-> e]
            ELSE [kind |-> "error", text |-> e]
    IN
    IF AllDigits(t) THEN [kind |-> "scalar", items |-> <<>>]
    ELSE IF StartsEndsWith(t, "[", "]")
    THEN IF Strip(Inner(t)) = <<>> THEN ListValue(<<>>)
         ELSE LET segs  == SplitComma(Inner(t))
                  items == [i \in 1..Len(segs) |-> PyListItem(segs[i])]
              IN  IF \E i \in 1..Len(items) : items[i].kind = "error"
                  THEN ParseError
                  ELSE ListValue(items)
    ELSE ParseError

OrEmptyOnError(v) == IF v.kind = "error" THEN ListValue(<<>>) ELSE v

\* lines 52-63: child_ids of a row; lines 56-57: '{a,b}' split on commas,
\* stripped, empty elements dropped
ParseChildIds(field) ==
    LET segs == SplitComma(Inner(field.text))
        kept == SelectSeq(segs, LAMBDA e : Strip(e) # <<>>)
    IN
    IF field.kind = "str"
    THEN IF StartsEndsWith(field.text, "{", "}")
         THEN ListValue([i \in 1..Len(kept) |-> StrItem(Strip(kept[i]))])
         ELSE OrEmptyOnError(literal_eval(field.text))
    ELSE IF field.kind = "list" THEN field
    ELSE ListValue(<<>>)

\* lines 65-76: child_names of a row; lines 68-69: the same split, the
\* double quotes stripped from each element
ParseChildNames(field) ==
    LET segs == SplitComma(Inner(field.text))
        kept == SelectSeq(segs, LAMBDA e : Strip(e) # <<>>)
    IN
    IF field.kind = "str"
    THEN IF StartsEndsWith(field.text, "{", "}")
         THEN ListValue([i \in 1..Len(kept) |-> StrItem(StripQuotes(Strip(kept[i])))])
         ELSE OrEmptyOnError(literal_eval(field.text))
    ELSE IF field.kind = "list" THEN field
    ELSE ListValue(<<>>)

\* lines 79-87 for one row: the (key, value) pairs it puts into
\* parent_mapping, or the TypeError of zip over a value that is no list and
\* the AttributeError of .lower() on a name that is no str
RowPairs(row) ==
    LET child_ids   == ParseChildIds(row.child_product_ids)
        child_names == ParseChildNames(row.child_product_names)
        \* zip stops at the shorter list
        n     == IF Len(child_ids.items) <= Len(child_names.items)
                 THEN Len(child_ids.items) ELSE Len(child_names.items)
        value == [ parent_product_id |-> row.parent_product_id,
                   parent_name |-> row.parent_product_name ]
    IN  IF \/ child_ids.kind = "scalar"
           \/ child_names.kind = "scalar"
           \/ \E k \in 1..n : child_names.items[k].kind # "str"
        THEN [raised |-> TRUE, pairs |-> <<>>]
        ELSE [raised |-> FALSE,
              pairs |-> [j \in 1..(2 * n) |->
                            IF j % 2 = 1
                            THEN <<child_ids.items[(j + 1) \div 2].text, value>>
                            ELSE <<Strip(Lower(child_names.items[j \div 2].text)), value>>]]

RECURSIVE AllRowPairs(_)
AllRowPairs(rows) ==
    IF rows = <<>> THEN [raised |-> FALSE, pairs |-> <<>>]
    ELSE LET first == RowPairs(rows[1])
             rest  == AllRowPairs(Tail(rows))
         IN  [raised |-> first.raised \/ rest.raised, pairs |-> first.pairs \o rest.pairs]

\* a dict filled pair by pair: the last value of a key stays
DictOf(pairs) ==
    [key \in { pairs[j][1] : j \in 1..Len(pairs) } |->
        pairs[CHOOSE j \in 1..Len(pairs) :
                /\ pairs[j][1] = key
                /\ \A l \in (j + 1)..Len(pairs) : pairs[l][1] # key][2]]

\* get_canonical_master_data(): {} when the query raises, when the table is
\* empty and when any row raises; else the mapping of every child id and
\* every lowered, stripped child name to its parent
get_canonical_master_data(table) ==
    IF ~table.exists \/ table.rows = <<>> THEN <<>>
    ELSE LET all == AllRowPairs(table.rows)
         IN  IF all.raised THEN <<>> ELSE DictOf(all.pairs)

\* an element of a PostgreSQL array output: in double quotes when it holds
\* white space
PgElement(e) ==
    IF \E i \in 1..Len(e) : IsSpace(e[i]) THEN <<"\"">> \o e \o <<"\"">> ELSE e

RECURSIVE PgElements(_)
PgElements(list) ==
    IF list = <<>> THEN <<>>
    ELSE IF Len(list) = 1 THEN PgElement(list[1])
    ELSE PgElement(list[1]) \o <<",">> \o PgElements(Tail(list))

\* the text output of a TEXT[] value: {a,"b c"}
PgArrayText(list) == <<"{">> \o PgElements(list) \o <<"}">>

\* the parent groups the canonical master table can hold
CanonicalGroups ==
    { [ parent_product_name |-> Apple,
        child_product_ids   |-> << <<"7">>, <<"A","1">> >>,
        child_product_names |-> <<Apple, appel_>> ],
      [ parent_product_name |-> Corn,
        child_product_ids   |-> << <<"A","2">> >>,
        child_product_names |-> <<Corn>> ],
      \* two records of one name, and one id seen under two names
      [ parent_product_name |-> Zug_Soap,
        child_product_ids   |-> << <<"8">>, <<"A","3">> >>,
        child_product_names |-> <<Zug_Soap>> ],
      [ parent_product_name |-> Zero,
        child_product_ids   |-> << <<"9">> >>,
        child_product_names |-> << <<" ","0"," ">>, Zero >> ] }

AsTextField(t)    == [kind |-> "str", text |-> t]

\* a str(list) cut off before its closing bracket
Truncated(list) == SubSeq(PyReprList(list), 1, Len(PyReprList(list)) - 1)

\* the rows of the groups, the array columns in each of the ways they can
\* come back from the query
CanonicalRows ==
    LET IdFields(list) ==
            { AsTextField(PgArrayText(list)), AsTextField(PyReprList(list)),
              AsTextField(Truncated(list)), AsTextField(<<"7">>) }
        NameFields(list) ==
            { ListValue([i \in 1..Len(list) |-> StrItem(list[i])]),
              AsTextField(PgArrayText(list)),
              AsTextField(Truncated(list)), [kind |-> "null"] }
    IN
    UNION { { [ parent_product_id   |-> _generate_stable_uuid(g.parent_product_name),
                parent_product_name |-> g.parent_product_name,
                child_product_ids   |-> i,
                child_product_names |-> n ] :
              i \in IdFields(g.child_product_ids),
              n \in NameFields(g.child_product_names) } :
            g \in CanonicalGroups }

\* bound: rows of the canonical master table read back
MaxCanonicalRows == 2

\* the canonical master table holds one more row
StoreCanonicalRow ==
    /\ ~remote.called
    /\ Len(hub[HUB_CANONICAL_TABLE_NAME].rows) < MaxCanonicalRows
    /\ \E row \in CanonicalRows :
        hub' = [hub EXCEPT ![HUB_CANONICAL_TABLE_NAME] = Table(Append(@.rows, row))]
    /\ UNCHANGED <<pipeline_vars, issued, late_vars, remote, sources, last_run, writer>>

\* one call of get_canonical_master_data()
CallGetCanonicalMasterData ==
    /\ ~remote.called
    /\ remote' = [ called |-> TRUE,
                   parent_mapping |-> get_canonical_master_data(hub[HUB_CANONICAL_TABLE_NAME]) ]
    /\ UNCHANGED <<pipeline_vars, issued, late_vars, sources, hub, last_run, writer>>

NextRemote ==
    \/ StoreCanonicalRow
    \/ CallGetCanonicalMasterData

SpecRemote == Init /\ [][NextRemote]_vars

-----------------------------------------------------------------------------
(* An authoring structure that declares one cleaned alias under two        *)
(* parents: "Appel" under "Apple" and "appel " under "Corn".               *)

ConflictMapping == << <<Apple, <<Apple, Appel>>>>, <<Corn, <<Corn, appel_>>>> >>

NextConflict ==
    \/ LoadRecord
    \/ RunStandardization

SpecConflict == InitWith(ConflictMapping) /\ [][NextConflict]_vars

-----------------------------------------------------------------------------
(* An authoring structure whose parent "Apple" is not among its own        *)
(* aliases.                                                                *)

ParentNotAliasMapping == << <<Apple, <<Appel>>>>, <<Corn, <<Corn>>>> >>

SpecParentNotAlias == InitWith(ParentNotAliasMapping) /\ [][NextConflict]_vars

-----------------------------------------------------------------------------
(* The three builders on one frame and one authoring structure, which      *)
(* declares the alias "zug  soap " (two inner spaces) under "Apple".       *)

WhitespaceMapping == << <<Apple, <<Apple, zug__soap_>>>>, <<Corn, <<Corn>>>> >>

\* create_local_shop_master_table and create_supermarket_master_table on the
\* frame the canonical builder was called on
RunPerSourceBuilders ==
    /\ calls >= 1
    /\ ~source_masters.built
    /\ source_masters' =
          [ built |-> TRUE,
            local_shop |-> create_local_shop_master_table_given(PARENT_CHILD_MAPPING, df),
            supermarket |-> create_supermarket_master_table_given(PARENT_CHILD_MAPPING, df) ]
    /\ UNCHANGED <<pipeline_vars, issued, sources, hub, last_run, writer, remote,
                   dynamic_vars>>

NextBuilders ==
    \/ LoadRecord
    \/ RunStandardization
    \/ RunPerSourceBuilders

SpecBuilders == InitWith(WhitespaceMapping) /\ [][NextBuilders]_vars


-----------------------------------------------------------------------------
(* scripts/dynamic_mapping: the three step scripts, as functions of the    *)
(* mapping_config.json they read.  Each returns the exit code of the       *)
(* interpreter: 0 when main() returns, 1 when an exception leaves it.      *)

\* json.load in a try block: the configuration, or None (loaded is FALSE)
load_mapping_config(file) == [loaded |-> file.exists /\ file.json, config |-> file]

\* validate_mapping.py lines 25-29: re.match on a str
validate_uuid(text) ==
    LET hex == <<"0","1","2","3","4","5","6","7","8","9",
                 "a","b","c","d","e","f","A","B","C","D","E","F">>
    IN  /\ Len(text) = 36
        /\ \A i \in 1..36 :
              IF i \in {9, 14, 19, 24} THEN text[i] = "-" ELSE IsIn(text[i], hex)

\* validate_mapping.py lines 31-120: the errors found, and whether
\* validate_uuid was handed a value that is no str (TypeError)
validate_mapping_config(config) ==
    LET infos == config.parent_products
        required_fields == {"version", "last_updated", "tables"}
        missing == { <<"Missing required field", f>> :
                        f \in required_fields \ config.fields }
        no_id == { <<"Missing parent_id", infos[i].parent_name>> :
                     i \in { j \in 1..Len(infos) : ~infos[j].has_parent_id } }
        bad_id == { <<"Invalid UUID format", infos[i].parent_name>> :
                      i \in { j \in 1..Len(infos) :
                                /\ infos[j].has_parent_id
                                /\ infos[j].parent_id.kind = "str"
                                /\ ~validate_uuid(infos[j].parent_id.text) } }
        errors == missing \cup no_id \cup bad_id
    IN  [ raised |-> \E i \in 1..Len(infos) :
                        infos[i].has_parent_id /\ infos[i].parent_id.kind # "str",
          errors |-> errors,
          is_valid |-> errors = {} ]

\* validate_mapping.py lines 150-167: main returns in every branch
validate_mapping_main(file) ==
    LET loaded == load_mapping_config(file) IN
    IF ~loaded.loaded THEN 0
    ELSE IF validate_mapping_config(loaded.config).raised THEN 1
    ELSE 0

\* update_mapping.py lines 77-105: False at the first missing key; len() of
\* a parent_id that is a number raises TypeError
update_validate_mapping_config(config) ==
    LET infos == config.parent_products
        first_bad == { i \in 1..Len(infos) :
                         ~infos[i].has_parent_id \/ infos[i].parent_id.kind # "str" }
        first == CHOOSE i \in first_bad : \A j \in first_bad : i <= j
    IN  IF ~({"version", "tables"} \subseteq config.fields)
        THEN [raised |-> FALSE, is_valid |-> FALSE]
        ELSE IF first_bad = {} THEN [raised |-> FALSE, is_valid |-> TRUE]
        ELSE IF ~infos[first].has_parent_id THEN [raised |-> FALSE, is_valid |-> FALSE]
        ELSE [raised |-> TRUE, is_valid |-> FALSE]

\* update_mapping.py lines 50-63: master_data; created_at and updated_at are
\* readings of the clock and are left out of the rows
MasterData(parent_products) ==
    [ i \in 1..Len(parent_products) |->
        [ parent_product_id |-> parent_products[i].parent_id,
          parent_product_name |-> parent_products[i].parent_name,
          child_product_names |->
              IF parent_products[i].children # <<>>
              THEN PyReprList(parent_products[i].children) ELSE NaN ] ]

\* update_mapping.py lines 107-131: what main does with the file: "raise"
\* (exit code 1), "return" before any table, or "update" of the master table
update_mapping_main(file) ==
    LET loaded == load_mapping_config(file) IN
    IF ~loaded.loaded THEN "return"
    ELSE IF update_validate_mapping_config(loaded.config).raised THEN "raise"
    ELSE IF ~update_validate_mapping_config(loaded.config).is_valid THEN "return"
    ELSE "update"

\* apply_dynamic_mapping.py lines 160-189 and 34-51: parent_info['parent_id']
\* of an entry without the key raises KeyError outside every try block
apply_dynamic_mapping_main(file) ==
    LET loaded == load_mapping_config(file) IN
    IF ~loaded.loaded THEN 0
    ELSE IF \E i \in 1..Len(loaded.config.parent_products) :
               ~loaded.config.parent_products[i].has_parent_id THEN 1
    ELSE 0

\* auto_pipeline.py lines 19-28: the MD5 of the bytes, None without a file
get_file_hash(file) == IF file.exists THEN <<"md5", file.content>> ELSE NaN

\* auto_pipeline.py lines 79-105
check_for_changes_without_state(file, last_hash) == file.exists

check_for_changes(file, last_hash) ==
    IF ~file.exists THEN FALSE
    ELSE IF last_hash = NaN THEN TRUE
    ELSE get_file_hash(file) # last_hash

\* auto_pipeline.py lines 57-77: the step succeeded
run_script_ignoring_returncode(returncode) == TRUE

run_script(returncode) == returncode = 0

\* scheduler.py lines 23-41 and webhook_trigger.py lines 61-73 test
\* result.returncode themselves
StepSucceeded(r, returncode) ==
    IF r = "auto" THEN run_script(returncode) ELSE returncode = 0

\* webhook_trigger.py lines 45-53: the bearer credential against the
\* environment
verify_secret(credentials) == credentials = WEBHOOK_SECRET


-----------------------------------------------------------------------------
(* scripts/dynamic_mapping: runs of the three-step pipeline.  A step       *)
(* script is a process of its own; update_mapping.py takes two steps, the  *)
(* DELETE and the INSERT, each committed on its own.                       *)

engine_vars == <<pipeline_vars, issued, sources, hub, last_run, writer, remote,
                 source_masters>>


\* a runner at the first line of run_pipeline
StartedRun == [IdleRun EXCEPT !.pc = "validate", !.hash_before = pipeline_state]

Step(i, returncode, file) ==
    [script |-> StepScripts[i], returncode |-> returncode, read |-> file.content]

\* scheduler.py lines 56-70: a job of the schedule is due
ScheduledJob ==
    /\ runs["scheduler"].pc \in {"idle", "returned"}
    /\ runs' = [runs EXCEPT !["scheduler"] = StartedRun]
    /\ UNCHANGED <<engine_vars, config_file, pipeline_state, sqlalchemy_version,
                   master_table, webhook, edits>>

\* webhook_trigger.py lines 89-123: POST /trigger with a bearer credential
\* and a body; the handler answers one request at a time
trigger_pipeline ==
    /\ runs["webhook"].pc \in {"idle", "returned"}
    /\ \E bearer \in {WEBHOOK_SECRET, "guess"}, secret \in {WEBHOOK_SECRET, "guess"} :
          IF verify_secret(bearer)
          THEN /\ webhook' = [bearer |-> bearer, secret |-> secret, answer |-> "run_pipeline"]
               /\ runs' = [runs EXCEPT !["webhook"] = StartedRun]
          ELSE /\ webhook' = [bearer |-> bearer, secret |-> secret, answer |-> "401"]
               /\ UNCHANGED runs
    /\ UNCHANGED <<engine_vars, config_file, pipeline_state, sqlalchemy_version,
                   master_table, edits>>

\* auto_pipeline.py lines 163-173 and 147-156: check_for_changes, and
\* run_pipeline when it reports a change
CheckAndRun ==
    /\ runs["auto"].pc \in {"idle", "returned"}
    /\ runs' = [runs EXCEPT !["auto"] =
                  IF check_for_changes(config_file, pipeline_state)
                  THEN [StartedRun EXCEPT !.checked = "True"]
                  ELSE [IdleRun EXCEPT !.checked = "False"]]
    /\ UNCHANGED <<engine_vars, config_file, pipeline_state, sqlalchemy_version,
                   master_table, webhook, edits>>

\* auto_pipeline.py lines 190-192: --force
ForcedRun ==
    /\ runs["auto"].pc \in {"idle", "returned"}
    /\ runs' = [runs EXCEPT !["auto"] = StartedRun]
    /\ UNCHANGED <<engine_vars, config_file, pipeline_state, sqlalchemy_version,
                   master_table, webhook, edits>>

\* step 1: validate_mapping.py
RunValidate(r) ==
    /\ runs[r].pc = "validate"
    /\ LET returncode == validate_mapping_main(config_file) IN
       runs' = [runs EXCEPT
                  ![r].steps = Append(@, Step(1, returncode, config_file)),
                  ![r].pc = IF StepSucceeded(r, returncode) THEN "update" ELSE "returned",
                  ![r].result = IF StepSucceeded(r, returncode) THEN @ ELSE "False"]
    /\ UNCHANGED <<engine_vars, config_file, pipeline_state, sqlalchemy_version,
                   master_table, webhook, edits>>

\* step 2: update_mapping.py up to and including the DELETE of
\* update_master_table; the script ends here unless the DELETE was executed.
\* Connection.execute of a plain str: SQLAlchemy 1 executes it and commits
\* (autocommit); SQLAlchemy 2 raises ObjectNotExecutableError, which the
\* except block swallows
RunUpdate(r) ==
    /\ runs[r].pc = "update"
    /\ LET does == update_mapping_main(config_file)
           returncode == IF does = "raise" THEN 1 ELSE 0
       IN  IF does = "update" /\ sqlalchemy_version = 1
           THEN /\ master_table' = <<>>
                /\ runs' = [runs EXCEPT ![r].pc = "insert", ![r].config = config_file]
           ELSE /\ UNCHANGED master_table
                /\ runs' = [runs EXCEPT
                      ![r].steps = Append(@, Step(2, returncode, config_file)),
                      ![r].pc = IF StepSucceeded(r, returncode) THEN "apply" ELSE "returned",
                      ![r].result = IF StepSucceeded(r, returncode) THEN @ ELSE "False"]
    /\ UNCHANGED <<engine_vars, config_file, pipeline_state, sqlalchemy_version, webhook,
                   edits>>

\* step 2, the rest: to_sql(if_exists='append') of master_data
RunInsert(r) ==
    /\ runs[r].pc = "insert"
    /\ master_table' = master_table \o MasterData(runs[r].config.parent_products)
    /\ runs' = [runs EXCEPT ![r].steps = Append(@, Step(2, 0, runs[r].config)),
                            ![r].pc = "apply"]
    /\ UNCHANGED <<engine_vars, config_file, pipeline_state, sqlalchemy_version, webhook,
                   edits>>

\* step 3: apply_dynamic_mapping.py; scheduler.py and webhook_trigger.py
\* return after it, auto_pipeline.py goes on to save the hash
RunApply(r) ==
    /\ runs[r].pc = "apply"
    /\ LET returncode == apply_dynamic_mapping_main(config_file) IN
       runs' = [runs EXCEPT
                  ![r].steps = Append(@, Step(3, returncode, config_file)),
                  ![r].pc = IF StepSucceeded(r, returncode) /\ r = "auto"
                            THEN "save" ELSE "returned",
                  ![r].result = IF ~StepSucceeded(r, returncode) THEN "False"
                                ELSE IF r = "auto" THEN @ ELSE "True"]
    /\ UNCHANGED <<engine_vars, config_file, pipeline_state, sqlalchemy_version,
                   master_table, webhook, edits>>

\* auto_pipeline.py lines 129-137: step 4 and the return
SaveHash ==
    /\ runs["auto"].pc = "save"
    /\ pipeline_state' = IF get_file_hash(config_file) # NaN
                         THEN get_file_hash(config_file) ELSE pipeline_state
    /\ runs' = [runs EXCEPT !["auto"].pc = "returned", !["auto"].result = "True"]
    /\ UNCHANGED <<engine_vars, config_file, sqlalchemy_version, master_table, webhook,
                   edits>>

\* somebody saves another mapping_config.json, or removes the file
EditConfig ==
    /\ edits < MaxEdits
    /\ edits' = edits + 1
    /\ \E file \in ConfigFiles \ {config_file} : config_file' = file
    /\ runs' = [r \in Runners |->
                  IF runs[r].pc = "idle" THEN runs[r] ELSE [runs[r] EXCEPT !.modified = TRUE]]
    /\ UNCHANGED <<engine_vars, pipeline_state, sqlalchemy_version, master_table, webhook>>

\* somebody saves another mapping_config.json that every step accepts
EditValidConfig ==
    /\ edits < MaxEdits
    /\ edits' = edits + 1
    /\ \E file \in ValidConfigFiles \ {config_file} : config_file' = file
    /\ runs' = [r \in Runners |->
                  IF runs[r].pc = "idle" THEN runs[r] ELSE [runs[r] EXCEPT !.modified = TRUE]]
    /\ UNCHANGED <<engine_vars, pipeline_state, sqlalchemy_version, master_table, webhook>>

\* a run started by the scheduler and one started by the webhook, on one
\* master table
NextOverlap ==
    \/ ScheduledJob
    \/ trigger_pipeline
    \/ \E r \in {"scheduler", "webhook"} : RunValidate(r)
    \/ \E r \in {"scheduler", "webhook"} : RunUpdate(r)
    \/ \E r \in {"scheduler", "webhook"} : RunInsert(r)
    \/ \E r \in {"scheduler", "webhook"} : RunApply(r)
    \/ EditValidConfig

SpecOverlap ==
    /\ InitEngine(MappingLiteral) /\ InitDynamicMapping({1, 2})
    /\ [][NextOverlap]_vars

\* auto_pipeline.py in the modes single and --force, and an editor of the
\* configuration
NextAuto ==
    \/ CheckAndRun
    \/ ForcedRun
    \/ RunValidate("auto")
    \/ RunUpdate("auto")
    \/ RunInsert("auto")
    \/ RunApply("auto")
    \/ SaveHash
    \/ EditConfig

SpecAuto ==
    /\ InitEngine(MappingLiteral) /\ InitDynamicMapping({1, 2})
    /\ [][NextAuto]_vars

\* run_continuous_monitoring: the loop of auto_pipeline.py lines 147-156 over
\* configurations every step accepts.  The loop never waits for anything but
\* its sleep and the step scripts, so each of its steps is taken when it
\* stays enabled; nobody is bound to edit the file.
NextMonitor ==
    \/ CheckAndRun
    \/ RunValidate("auto")
    \/ RunUpdate("auto")
    \/ RunInsert("auto")
    \/ RunApply("auto")
    \/ SaveHash
    \/ EditValidConfig

SpecMonitor ==
    /\ InitEngine(MappingLiteral) /\ InitDynamicMapping({1, 2})
    /\ [][NextMonitor]_vars
    /\ WF_vars(CheckAndRun)
    /\ WF_vars(RunValidate("auto"))
    /\ WF_vars(RunUpdate("auto"))
    /\ WF_vars(RunInsert("auto"))
    /\ WF_vars(RunApply("auto"))
    /\ WF_vars(SaveHash)

----------------------------------------------------------------------------
(* Properties of the master table.                                         *)

Elems(s) == { s[i] : i \in 1..Len(s) }

\* create_parent_child_master_table has returned at least once
Built == calls >= 1

\* the records of the frame that lines 106-109 keep: the name is not null and
\* does not strip to "0"
Surviving ==
    { i \in 1..Len(df) : /\ df[i].raw_product_name # NaN
                         /\ Strip(df[i].raw_product_name) # Zero }

RowIds(k)   == Elems(master[k].child_product_ids)
RowNames(k) == Elems(master[k].child_product_names)
RowIndex    == 1..Len(master)

\* the ids of the surviving records, as text
SurvivingIds == { df[i].raw_product_id.text : i \in Surviving }

\* every surviving record has a name with a visible character: on such frames
\* the filter of the code keeps what the specified filter keeps
AllNamed == \A i \in Surviving : CleanName(df[i].raw_product_name) # Empty

\* C1 as stated, on frames of named records: the child_product_ids lists of the
\* output rows cover exactly the stringified ids of the surviving records, and
\* no id is in the lists of two different rows.
C1_IdsPartitioned ==
    (Built /\ AllNamed) =>
        /\ UNION { RowIds(k) : k \in RowIndex } = SurvivingIds
        /\ \A k, l \in RowIndex : k # l => RowIds(k) \cap RowIds(l) = {}

\* C1 amended: the lists cover exactly the stringified ids of the surviving
\* records, and an id is in the lists of two different rows only when two
\* surviving records carry it and their names are in those two rows.
C1_IdsCoveredSharedOnlyByRepeats ==
    Built =>
        /\ UNION { RowIds(k) : k \in RowIndex } = SurvivingIds
        /\ \A k, l \in RowIndex : k # l =>
              \A x \in RowIds(k) \cap RowIds(l) :
                  \E i, j \in Surviving :
                      /\ i # j
                      /\ df[i].raw_product_id.text = x
                      /\ df[j].raw_product_id.text = x
                      /\ df[i].raw_product_name \in RowNames(k)
                      /\ df[j].raw_product_name \in RowNames(l)

\* one id on two surviving records that resolve to different parents
C1_Witness ==
    /\ Built
    /\ \E k, l \in RowIndex : k # l /\ RowIds(k) \cap RowIds(l) # {}

\* C2: every name of a surviving record is in the child_product_names of
\* exactly one row, and a row lists only names of surviving records.
C2_NamesInExactlyOneRow ==
    Built =>
        /\ \A i \in Surviving :
              Cardinality({ k \in RowIndex : df[i].raw_product_name \in RowNames(k) }) = 1
        /\ \A k \in RowIndex :
              RowNames(k) \subseteq { df[i].raw_product_name : i \in Surviving }

\* two surviving records with different names, resolved to two rows
C2_Witness ==
    /\ Built
    /\ Cardinality(Surviving) = 2
    /\ Len(master) = 2

\* the records the filter is specified to keep: the name is not null, not
\* empty and does not strip to "0"
SpecifiedToKeep ==
    { i \in 1..Len(df) : /\ df[i].raw_product_name # NaN
                         /\ df[i].raw_product_name # Empty
                         /\ Strip(df[i].raw_product_name) # Zero }

\* C3 as stated: a record whose name is null, empty or strips to "0" gives
\* neither its name nor its id to an output row.
C3_FilteredRecordsContributeNothing ==
    Built =>
        \A k \in RowIndex :
            /\ RowNames(k) \subseteq { df[i].raw_product_name : i \in SpecifiedToKeep }
            /\ RowIds(k) \subseteq { df[i].raw_product_id.text : i \in SpecifiedToKeep }

\* C4 as stated: parent_product_name is never empty and never "0".
C4_ParentNameNotEmptyNotZero ==
    Built =>
        \A k \in RowIndex :
            /\ master[k].parent_product_name # Empty
            /\ master[k].parent_product_name # Zero

\* C5: a surviving record whose cleaned name is a key of CHILD_TO_PARENT_MAP is
\* in a row, and every row that lists it is named after the parent the lookup
\* declares.
C5_AliasPrecedence ==
    Built =>
        \A i \in Surviving :
            CleanName(df[i].raw_product_name) \in DOMAIN CHILD_TO_PARENT_MAP =>
                /\ \E k \in RowIndex : df[i].raw_product_name \in RowNames(k)
                /\ \A k \in RowIndex :
                      df[i].raw_product_name \in RowNames(k) =>
                          master[k].parent_product_name =
                              CHILD_TO_PARENT_MAP[CleanName(df[i].raw_product_name)]

\* the alias "appel " comes first in the frame, then "Apple": one row, named
\* "Apple" and not after the first raw name
C5_Witness ==
    /\ Built
    /\ Len(df) = 2
    /\ df[1].raw_product_name = appel_
    /\ df[2].raw_product_name = Apple
    /\ Len(master) = 1
    /\ master[1].parent_product_name = Apple
    /\ master[1].child_product_names = <<Apple, appel_>>

\* C6 as stated: a routine gives one parent name one identifier, on every
\* call.
C6_IdentifiersDeterministic ==
    \A a, b \in issued :
        (a.routine = b.routine /\ a.name = b.name) => a.id = b.id

LocalRowIndex    == 1..Len(local_master)
LocalRowNames(l) == Elems(local_master[l].child_product_names)

\* the records create_local_shop_master_table keeps
LocalSurviving ==
    { j \in 1..Len(local_df) : /\ local_df[j].raw_product_name # NaN
                               /\ Strip(local_df[j].raw_product_name) # Zero }

\* both tables were built
BothBuilt == Built /\ local_calls = 1

\* C7 as stated, on frames of named records: records with one normalization
\* key get one parent_product_id in the canonical table and in the local shop
\* table.
C7_SameKeySameParentId ==
    (BothBuilt /\ AllNamed) =>
        \A i \in Surviving : \A j \in LocalSurviving :
            CleanName(df[i].raw_product_name) = CleanName(local_df[j].raw_product_name) =>
                \A k \in RowIndex : \A l \in LocalRowIndex :
                    ( /\ df[i].raw_product_name \in RowNames(k)
                      /\ local_df[j].raw_product_name \in LocalRowNames(l) )
                    => master[k].parent_product_id = local_master[l].parent_product_id

\* C7 amended: rows of the two tables with one parent_product_name have one
\* parent_product_id.
C7_SameParentNameSameId ==
    BothBuilt =>
        \A k \in RowIndex : \A l \in LocalRowIndex :
            master[k].parent_product_name = local_master[l].parent_product_name =>
                master[k].parent_product_id = local_master[l].parent_product_id

\* both builds resolved records to the parent "Apple", from frames in
\* different orders
C7_Witness ==
    /\ BothBuilt
    /\ local_df # df
    /\ \E k \in RowIndex : \E l \in LocalRowIndex :
          /\ master[k].parent_product_name = Apple
          /\ local_master[l].parent_product_name = Apple

C9_FallbackNamedAfterFirst ==
    Built =>
        \A i \in Surviving :
            LET key   == CleanName(df[i].raw_product_name)
                same  == { j \in Surviving : CleanName(df[j].raw_product_name) = key }
                first == CHOOSE j \in same : \A j2 \in same : j <= j2
            IN  key \notin DOMAIN CHILD_TO_PARENT_MAP =>
                    \E k \in RowIndex :
                        /\ \A j \in same : df[j].raw_product_name \in RowNames(k)
                        /\ master[k].parent_product_name = df[first].raw_product_name
                        /\ \A l \in RowIndex :
                              (\E j \in same : df[j].raw_product_name \in RowNames(l))
                                  => l = k

\* "zug  soap " then "Zug Soap": one row, named "zug  soap "
C9_Witness ==
    /\ Built
    /\ Len(df) = 2
    /\ df[1].raw_product_name = zug__soap_
    /\ df[2].raw_product_name = Zug_Soap
    /\ Len(master) = 1
    /\ master[1].parent_product_name = zug__soap_
    /\ master[1].child_product_names = <<Zug_Soap, zug__soap_>>

\* C10: created_at of a row is the earliest instant among the timestamps of
\* its records that parse, and null when none parses.
C10_CreatedAtIsEarliest ==
    Built =>
        \A k \in RowIndex :
            LET group == { i \in Surviving : df[i].raw_product_name \in RowNames(k) }
                valid == { df[i].created_at.hour - df[i].created_at.offset :
                              i \in { g \in group : df[g].created_at.kind = "stamp" } }
            IN  IF valid = {}
                THEN master[k].created_at = NaN
                ELSE /\ master[k].created_at[1] = "utc"
                     /\ master[k].created_at[2] \in valid
                     /\ \A v \in valid : master[k].created_at[2] <= v

\* a row of two records with timestamps; the one written with the later
\* local hour is the earlier instant
C10_Witness ==
    /\ Built
    /\ Len(df) = 2
    /\ Len(master) = 1
    /\ df[1].created_at.kind = "stamp"
    /\ df[2].created_at.kind = "stamp"
    /\ df[1].created_at.hour < df[2].created_at.hour
    /\ master[1].created_at = <<"utc", df[2].created_at.hour - df[2].created_at.offset>>

\* the alias list the authoring mapping declares for a parent name, or the
\* list of the name alone
DeclaredAliases(p) ==
    LET entries == { e \in 1..Len(PARENT_CHILD_MAPPING) : PARENT_CHILD_MAPPING[e][1] = p }
    IN  IF entries = {} THEN <<p>>
        ELSE PARENT_CHILD_MAPPING[CHOOSE e \in entries : TRUE][2]

\* C11: all_possible_child_names of a row is the alias list PARENT_CHILD_MAPPING
\* declares for the row's parent name, or the list of that name alone when it
\* has no entry, whatever records the frame holds.
C11_AllPossibleChildNamesFromMapping ==
    Built =>
        \A k \in RowIndex :
            master[k].all_possible_child_names =
                DeclaredAliases(master[k].parent_product_name)

\* the only record is "appel ": the row "Apple" lists both declared aliases,
\* neither of which was observed
C11_Witness ==
    /\ Built
    /\ Len(master) = 1
    /\ master[1].parent_product_name = Apple
    /\ master[1].child_product_names = <<appel_>>
    /\ master[1].all_possible_child_names = <<Apple, Appel>>

\* s is strictly ascending in code point order
StrictlyAscending(s) == \A a, b \in 1..Len(s) : a < b => StrLess(s[a], s[b])

\* C12: child_product_ids and child_product_names of every row are ascending
\* and free of duplicates.
C12_ChildListsSortedUnique ==
    Built =>
        \A k \in RowIndex :
            /\ StrictlyAscending(master[k].child_product_ids)
            /\ StrictlyAscending(master[k].child_product_names)

\* a row of two records loaded with the larger id and name first
C12_Witness ==
    /\ Built
    /\ Len(df) = 2
    /\ Len(master) = 1
    /\ master[1].parent_product_name = Apple
    /\ Len(master[1].child_product_ids) = 2
    /\ Len(master[1].child_product_names) = 2
    /\ master[1].child_product_ids[1] = AsStr(df[2].raw_product_id)
    /\ master[1].child_product_names[1] = df[2].raw_product_name

\* C13: the rows are in ascending order of parent_product_name, and no two rows
\* have the same parent_product_name or the same parent_product_id.
C13_RowsSortedByUniqueParent ==
    Built =>
        \A k, l \in RowIndex :
            k < l =>
                /\ StrLess(master[k].parent_product_name, master[l].parent_product_name)
                /\ master[k].parent_product_id # master[l].parent_product_id

\* "Zug Soap" loaded before "Apple": the row "Apple" comes first
C13_Witness ==
    /\ Built
    /\ Len(df) = 2
    /\ df[1].raw_product_name = Zug_Soap
    /\ df[2].raw_product_name = Apple
    /\ Len(master) = 2
    /\ master[1].parent_product_name = Apple
    /\ master[2].parent_product_name = Zug_Soap

-----------------------------------------------------------------------------
(* Properties of the runs of the unified pipeline.                         *)

Ran == last_run.status # "none"

canonical_products_master == hub[HUB_CANONICAL_TABLE_NAME]

\* C14: a run that loaded its sources and whose combined input is empty computes an empty parent set and
\* finishes as a success.
C14_EmptyInputSucceeds ==
    (Ran /\ last_run.supabase_loaded /\ last_run.input = <<>>) =>
        /\ last_run.master = <<>>
        /\ last_run.status = "success"

\* both sources answered and hold no usable row; the run succeeded
C14_Witness ==
    /\ last_run.status = "success"
    /\ last_run.clickhouse_loaded
    /\ last_run.supabase_loaded
    /\ last_run.input = <<>>
    /\ last_run.master = <<>>

\* C15: after a run that completed without raising, the destination table
\* holds exactly the rows that run computed, an empty master included.  Stated
\* for the runs in which both sources loaded; a table that does not exist
\* counts as holding no rows.
C15_DestinationHoldsComputedRows ==
    (last_run.status = "success" /\ last_run.clickhouse_loaded /\ last_run.supabase_loaded) =>
        canonical_products_master.rows = last_run.master

\* C16: a run in which a source failed to load ends with an error and writes
\* no master table.
C16_FailedLoadIsAnError ==
    (Ran /\ ~(last_run.clickhouse_loaded /\ last_run.supabase_loaded)) =>
        /\ last_run.status = "error"
        /\ ~last_run.wrote

\* C17: from the moment a master-table writer is called, its destination
\* table holds the complete previous rows or the complete new rows (a table
\* that does not exist counts as holding no rows).
C17_WritersAreAtomic ==
    \A w \in Writers :
        writer[w].pc # "idle" =>
            hub[WriterTable(w)].rows \in
                { writer[w].previous.rows, StoredRows(w, writer[w].master_df) }

-----------------------------------------------------------------------------
(* The worked example.                                                     *)

ExampleBuilt == Built /\ df = ExampleFrame

\* the row of the example but for its child names
ExampleRowWith(child_product_names) ==
    [ parent_product_id   |-> _generate_stable_uuid(Tomato_A),
      parent_product_name |-> Tomato_A,
      child_product_ids   |-> << <<"A","1">>, <<"A","2">>, <<"A","3">> >>,
      child_product_names |-> child_product_names,
      all_possible_child_names |-> <<Tomato_A, Tomatoes_Grade_A, Tomato>>,
      created_at |-> <<"utc", 0>> ]

\* C18 as stated: the example yields one row with the child names
\* ["Tomato A", "Tomatoes Grade A", "tomato a"].
C18_ExampleAsStated ==
    ExampleBuilt =>
        master = << ExampleRowWith(<<Tomato_A, Tomatoes_Grade_A,
                                      <<"t","o","m","a","t","o"," ","a">> >>) >>

\* C18: the example yields exactly one row: parent "Tomato A", child ids
\* ["A1", "A2", "A3"], created_at 2024-01-01, and the child names as they were
\* observed, in code point order: [" tomato a ", "Tomato A", "Tomatoes Grade A"].
C18_ExampleRawNamesSorted ==
    ExampleBuilt =>
        master = << ExampleRowWith(<<tomato_a_spaced, Tomato_A, Tomatoes_Grade_A>>) >>

C18_Witness ==
    /\ ExampleBuilt
    /\ Len(master) = 1
    /\ master[1].parent_product_name = Tomato_A
    /\ Len(master[1].child_product_ids) = 3

-----------------------------------------------------------------------------
(* Properties of get_canonical_master_data.                                *)

CanonicalRowIndex == 1..Len(canonical_products_master.rows)

\* the texts of the model that are no array
NoArrayTexts ==
    { <<"7">> } \cup { Truncated(g.child_product_ids) : g \in CanonicalGroups }
                \cup { Truncated(g.child_product_names) : g \in CanonicalGroups }

Unparseable(field) == field.kind = "str" /\ field.text \in NoArrayTexts

UnparseableRow(k) ==
    \/ Unparseable(canonical_products_master.rows[k].child_product_ids)
    \/ Unparseable(canonical_products_master.rows[k].child_product_names)

\* the row holds both lists in a readable form
ReadableRow(k) ==
    /\ ~UnparseableRow(k)
    /\ canonical_products_master.rows[k].child_product_names.kind # "null"

\* the child ids of the group a row belongs to
GroupIds(k) ==
    LET g == CHOOSE g \in CanonicalGroups :
                g.parent_product_name = canonical_products_master.rows[k].parent_product_name
    IN  Elems(g.child_product_ids)

\* C19: when get_canonical_master_data meets a row with an unparseable
\* child_product_ids or child_product_names text, the other rows are still
\* mapped: every child id of every readable row is a key of the mapping and
\* leads to that row's parent.
C19_UnparseableRowLeavesOthersMapped ==
    (remote.called /\ \E k \in CanonicalRowIndex : UnparseableRow(k)) =>
        \A k \in CanonicalRowIndex :
            ReadableRow(k) =>
                \A id \in GroupIds(k) :
                    /\ id \in DOMAIN remote.parent_mapping
                    /\ remote.parent_mapping[id].parent_name =
                           canonical_products_master.rows[k].parent_product_name

-----------------------------------------------------------------------------
(* Properties of an alias declared under two parents.                      *)

\* the entries of the authoring structure that declare the cleaned alias
DeclaringEntries(key) ==
    { e \in 1..Len(PARENT_CHILD_MAPPING) :
        \E a \in 1..Len(PARENT_CHILD_MAPPING[e][2]) :
            CleanName(PARENT_CHILD_MAPPING[e][2][a]) = key }

\* the parent of the last of them in iteration order
LastDeclaringParent(key) ==
    PARENT_CHILD_MAPPING[CHOOSE e \in DeclaringEntries(key) :
                            \A f \in DeclaringEntries(key) : f <= e][1]

DeclaredKeys ==
    UNION { { CleanName(PARENT_CHILD_MAPPING[e][2][a]) :
                a \in 1..Len(PARENT_CHILD_MAPPING[e][2]) } :
            e \in 1..Len(PARENT_CHILD_MAPPING) }

\* C20: the inverse map is built without error and maps every cleaned alias,
\* also one declared under two parents, to the last parent declaring it in
\* iteration order; every record whose name cleans to that alias is a child
\* of that parent's row.
C20_DuplicateAliasLastParentWins ==
    /\ DOMAIN CHILD_TO_PARENT_MAP = DeclaredKeys
    /\ \A key \in DeclaredKeys : CHILD_TO_PARENT_MAP[key] = LastDeclaringParent(key)
    /\ Built =>
        \A i \in Surviving :
            CleanName(df[i].raw_product_name) \in DeclaredKeys =>
                \E k \in RowIndex :
                    /\ master[k].parent_product_name =
                           LastDeclaringParent(CleanName(df[i].raw_product_name))
                    /\ df[i].raw_product_id.text \in RowIds(k)
                    /\ df[i].raw_product_name \in RowNames(k)

\* "appel " is declared under "Apple" (as "Appel") and under "Corn": the
\* record named "appel " is in the row of "Corn", and there is no other row
C20_Witness ==
    /\ Built
    /\ Cardinality(DeclaringEntries(CleanName(appel_))) = 2
    /\ Len(df) = 1
    /\ df[1].raw_product_name = appel_
    /\ Len(master) = 1
    /\ master[1].parent_product_name = Corn
    /\ master[1].child_product_names = <<appel_>>

-----------------------------------------------------------------------------
(* The per-source builders against the canonical builder.                  *)

\* C21: on the same authoring structure and the same frame, the local-shop
\* builder and the supermarket builder produce the rows of the canonical
\* builder.
C21_PerSourceBuildersAgree ==
    source_masters.built =>
        /\ source_masters.local_shop = master
        /\ source_masters.supermarket = master


-----------------------------------------------------------------------------
(* Properties of the dynamic-mapping pipeline.                             *)

\* the run of r has returned and its update_master_table has inserted
Inserted(r) == runs[r].pc = "returned" /\ runs[r].config.exists

AllZero(steps) == \A i \in 1..Len(steps) : steps[i].returncode = 0

\* C23: run_pipeline of auto_pipeline.py runs validate_mapping.py,
\* update_mapping.py, apply_dynamic_mapping.py in this order, starts a step
\* only when every earlier step returned exit code 0, and returns True only
\* when all three did.
C23_StepsInOrderAndGated ==
    LET run == runs["auto"] IN
    /\ Len(run.steps) <= 3
    /\ \A i \in 1..Len(run.steps) : run.steps[i].script = StepScripts[i]
    /\ \A i \in 1..(Len(run.steps) - 1) : run.steps[i].returncode = 0
    /\ run.pc = "validate" => run.steps = <<>>
    /\ run.pc \in {"update", "insert"} => Len(run.steps) = 1 /\ AllZero(run.steps)
    /\ run.pc = "apply" => Len(run.steps) = 2 /\ AllZero(run.steps)
    /\ run.result = "True" => Len(run.steps) = 3 /\ AllZero(run.steps)

\* a run that stopped at update_mapping.py, which left with exit code 1
C23_Witness ==
    LET run == runs["auto"] IN
    /\ run.pc = "returned" /\ run.result = "False"
    /\ Len(run.steps) = 2
    /\ run.steps[2].returncode = 1

\* C24, in states: a run that stopped at a failed step leaves the saved hash
\* as it was, so that check_for_changes reports the change again; after a run
\* that succeeded, with the file not modified since the run began,
\* check_for_changes reports no change.
C24_HashAfterRun ==
    LET run == runs["auto"] IN
    /\ (run.pc = "returned" /\ run.result = "False") =>
          /\ pipeline_state = run.hash_before
          /\ (run.checked = "True" /\ ~run.modified) =>
                check_for_changes(config_file, pipeline_state)
    /\ (run.pc = "returned" /\ run.result = "True" /\ ~run.modified) =>
          ~check_for_changes(config_file, pipeline_state)

\* C24, in steps: the saved hash changes only in the last step of a run
\* whose three steps have succeeded.
C24_HashChangesOnlyAfterSuccess ==
    pipeline_state' # pipeline_state =>
        /\ runs["auto"].pc = "save"
        /\ Len(runs["auto"].steps) = 3
        /\ AllZero(runs["auto"].steps)
        /\ runs'["auto"].result = "True"

FileOf(content) == ConfigFile[content]

\* mapping_config.json cannot be loaded, or validate_mapping_config finds
\* errors in it
Rejected(file) ==
    \/ ~load_mapping_config(file).loaded
    \/ ~validate_mapping_config(file).is_valid

\* C25: when validate_mapping.py read a mapping_config.json that cannot be
\* loaded or has errors, run_pipeline stops there: no further step runs, the
\* hash is not saved, and run_pipeline returns False.
C25_InvalidConfigStopsAtValidation ==
    LET run == runs["auto"] IN
    (Len(run.steps) >= 1 /\ Rejected(FileOf(run.steps[1].read))) =>
        /\ run.pc = "returned"
        /\ run.result = "False"
        /\ Len(run.steps) = 1
        /\ pipeline_state = run.hash_before


\* C26: POST /trigger runs the pipeline only for a request whose bearer
\* credential and whose body field secret both equal WEBHOOK_SECRET; every
\* other request is rejected.
C26_OnlyAuthenticatedRequestsRun ==
    webhook.answer = "run_pipeline" =>
        /\ webhook.bearer = WEBHOOK_SECRET
        /\ webhook.secret = WEBHOOK_SECRET


\* the child names of the group a row belongs to
GroupNames(k) ==
    LET g == CHOOSE g \in CanonicalGroups :
                g.parent_product_name = canonical_products_master.rows[k].parent_product_name
    IN  Elems(g.child_product_names)

\* C27: when every row of the master table holds both lists in a readable
\* form, every id in child_product_ids and every lower-cased, stripped name
\* in child_product_names of every row is a key of the mapping
\* get_canonical_master_data returns, whatever the lengths of the two lists.
C27_EveryChildIsAKey ==
    (remote.called /\ \A k \in CanonicalRowIndex : ReadableRow(k)) =>
        \A k \in CanonicalRowIndex :
            /\ \A id \in GroupIds(k) : id \in DOMAIN remote.parent_mapping
            /\ \A name \in GroupNames(k) : Strip(Lower(name)) \in DOMAIN remote.parent_mapping


-----------------------------------------------------------------------------
(* Properties of the grouping.                                             *)

\* two raw names belong together: one normalized name, or aliases of one
\* parent
Coherent(a, b) ==
    \/ CleanName(a) = CleanName(b)
    \/ /\ MapGet(CHILD_TO_PARENT_MAP, CleanName(a)) # NaN
       /\ MapGet(CHILD_TO_PARENT_MAP, CleanName(a)) =
              MapGet(CHILD_TO_PARENT_MAP, CleanName(b))

\* C28: group coherence, also for an authoring structure whose parent is not
\* among its own aliases: the records of one output row have the same
\* normalized name or normalized names that are aliases of the same parent;
\* a fallback group is merged with no other group.
C28_GroupCoherence ==
    calls >= 1 =>
        \A k \in 1..Len(master) :
            \A a, b \in Elems(master[k].child_product_names) : Coherent(a, b)


\* the frame in every order of its records
Reorderings(frame) ==
    { [i \in 1..Len(frame) |-> frame[p[i]]] :
        p \in { q \in [1..Len(frame) -> 1..Len(frame)] :
                  \A i, j \in 1..Len(frame) : q[i] = q[j] => i = j } }

\* a row of an alias group: its records resolve through the alias table
IsAliasRow(row) ==
    \E name \in Elems(row.child_product_names) :
        MapGet(CHILD_TO_PARENT_MAP, CleanName(name)) # NaN

\* which records share a row, with which child ids, child names and
\* created_at; the parent of an alias group belongs to it, the name and id of
\* an unmapped group do not
Grouping(table) ==
    { [ child_product_ids   |-> table[k].child_product_ids,
        child_product_names |-> table[k].child_product_names,
        created_at          |-> table[k].created_at,
        parent |-> IF IsAliasRow(table[k])
                   THEN <<table[k].parent_product_name, table[k].parent_product_id>>
                   ELSE NaN ] : k \in 1..Len(table) }

\* C29: the master table built from the records in any order groups them the
\* same way: the same rows of child ids, child names and created_at; only
\* the parent_product_name and parent_product_id of unmapped groups may
\* differ.
C29_GroupingIsOrderIndependent ==
    calls >= 1 =>
        \A frame \in Reorderings(df) :
            /\ Grouping(create_parent_child_master_table(frame)) = Grouping(master)
            /\ Len(create_parent_child_master_table(frame)) = Len(master)

\* two records of one unmapped group, named after the first of them: the
\* other order gives another master table
C29_Witness ==
    /\ calls >= 1
    /\ Len(df) = 2
    /\ \E k \in 1..Len(master) :
          ~IsAliasRow(master[k]) /\ Len(master[k].child_product_names) = 2
    /\ \E frame \in Reorderings(df) : create_parent_child_master_table(frame) # master


-----------------------------------------------------------------------------
(* Properties of run_continuous_monitoring.                                *)

\* a run of the monitor has succeeded whose three steps all read the file
ProcessedByARun(file) ==
    LET run == runs["auto"] IN
    /\ run.pc = "returned" /\ run.result = "True"
    /\ Len(run.steps) = 3
    /\ \A i \in 1..3 : run.steps[i].read = file.content

\* C30: under run_continuous_monitoring with all steps succeeding, every
\* content mapping_config.json is given stays unprocessed only until a
\* pipeline run whose steps read it, unless it is replaced first; a file
\* modified while run_pipeline is executing is reported as changed later.
C30_EveryModificationIsProcessed ==
    \A file \in ValidConfigFiles :
        (config_file = file) ~> (config_file # file \/ ProcessedByARun(file))

====
